---- MODULE Spec2Model ----
(***************************************************************************)
(* Model of the Hardcover launcher extension: the two API clients          *)
(* (main.py HardcoverAPI, api.py HardcoverAPI), the keyword-query handler, *)
(* the item-enter handler and the item builders.                           *)
(*                                                                         *)
(* Strings the code inspects (tokens, queries, ids) are sequences of       *)
(* one-character strings.  A JSON value is a tagged tuple.  A displayed    *)
(* text is a sequence of fragments whose concatenation is the string.      *)
(***************************************************************************)
EXTENDS Integers, Sequences, FiniteSets, Bags, TLC

VARIABLES
    phase,        \* "idle": the host can hand out an event; "returned": a call has returned
    library,      \* the remote service's library of the account: book id -> status id (0: no entry)
    op,           \* the operation that ran last
    inp,          \* its input
    out,          \* what it returned: [raised, kind, items, value]
    reqs,         \* the outbound requests it issued, in order, each with the client call's result
    added,        \* history: the <<user id, book id>> pairs an item activation reported as added,
                  \* until the book's entry is removed on the service's own site
    waiting       \* the invocations that wait for the answer to a library request: a bag of
                  \* [op, inp], inp holding the answers the invocation has got so far

vars == <<phase, library, op, inp, out, reqs, added, waiting>>

----------------------------------------------------------------------------
(* Bounds of the model *)

MaxWords == 2       \* words in a typed query
MaxPieces == 3      \* pieces a raw token is concatenated from
MaxHits == 2        \* hits in a search response
MaxWaiting == 2     \* invocations that wait for an answer at the same time

----------------------------------------------------------------------------
(* Character strings *)

\* F applied to the value of e, with e evaluated once
Bind(e, F(_)) == CHOOSE v \in {F(x) : x \in {e}} : TRUE

\* the characters str.strip() and str.split(None) treat as whitespace
\* (str.isspace) that a string literal can hold: space, \t, \n, \r, \f, then \x0b,
\* \x1c, \x1d, \x1e, \x1f, \x85 and \xa0, written as the characters themselves.
\* Python counts the spaces above \xff as well (\u1680, \u2000-\u200a, \u2028,
\* \u2029, \u202f, \u205f, \u3000); no input of the model holds one.  int()
\* skips fewer characters: see IntStr.
Whitespace ==
    {" ", "\t", "\n", "\r", "\f", "", "", "", "", "", "", " "}

UpperCase == <<"A","B","C","D","E","F","G","H","I","J","K","L","M",
               "N","O","P","Q","R","S","T","U","V","W","X","Y","Z">>
LowerCase == <<"a","b","c","d","e","f","g","h","i","j","k","l","m",
               "n","o","p","q","r","s","t","u","v","w","x","y","z">>

\* str.lower() on one character
LowerOf == [c \in {UpperCase[i] : i \in 1..26} |-> LowerCase[CHOOSE i \in 1..26 : UpperCase[i] = c]]
LowerChar(c) == IF c \in DOMAIN LowerOf THEN LowerOf[c] ELSE c

\* str.lower()
Lower(s) == [i \in 1..Len(s) |-> LowerChar(s[i])]

RECURSIVE LStrip(_, _)
\* str.lstrip(chars)
LStrip(s, chars) ==
    IF s # <<>> /\ Head(s) \in chars THEN LStrip(Tail(s), chars) ELSE s

RECURSIVE RStrip(_, _)
\* str.rstrip(chars)
RStrip(s, chars) ==
    IF s # <<>> /\ s[Len(s)] \in chars
    THEN RStrip(SubSeq(s, 1, Len(s) - 1), chars)
    ELSE s

\* str.strip(chars); str.strip() is Strip(s, Whitespace)
Strip(s, chars) == RStrip(LStrip(s, chars), chars)

StartsWith(s, p) == Len(s) >= Len(p) /\ SubSeq(s, 1, Len(p)) = p

RECURSIVE Replace(_, _, _)
\* str.replace(old, new) for a non-empty old: leftmost, non-overlapping
Replace(s, old, new) ==
    IF s = <<>> THEN <<>>
    ELSE IF StartsWith(s, old)
         THEN new \o Replace(SubSeq(s, Len(old) + 1, Len(s)), old, new)
         ELSE <<Head(s)>> \o Replace(Tail(s), old, new)

RECURSIVE FirstSpace(_, _)
\* index of the first whitespace character of s at or after i, Len(s)+1 when none
FirstSpace(s, i) ==
    IF i > Len(s) \/ s[i] \in Whitespace THEN i ELSE FirstSpace(s, i + 1)

\* str.split(None, 1): at most two fields; the first is a run of non-whitespace,
\* the second is the rest after the whitespace that follows it (kept as is,
\* trailing whitespace included); no field at all for a blank string
Split1(s) ==
    LET t == LStrip(s, Whitespace)
        e == FirstSpace(t, 1)
        rest == LStrip(SubSeq(t, e, Len(t)), Whitespace)
    IN  IF t = <<>> THEN <<>>
        ELSE IF rest = <<>> THEN <<SubSeq(t, 1, e - 1)>>
        ELSE <<SubSeq(t, 1, e - 1), rest>>

Digits == <<"0","1","2","3","4","5","6","7","8","9">>
IsDigit(c) == \E i \in 1..10 : Digits[i] = c
DigitVal(c) == (CHOOSE i \in 1..10 : Digits[i] = c) - 1

RECURSIVE DecVal(_)
\* the value of a string of digits; the underscores in it are skipped
DecVal(s) ==
    IF s = <<>> THEN 0
    ELSE IF s[Len(s)] = "_" THEN DecVal(SubSeq(s, 1, Len(s) - 1))
    ELSE 10 * DecVal(SubSeq(s, 1, Len(s) - 1)) + DigitVal(s[Len(s)])

\* an unsigned literal of int(): digits, with single underscores between them
IsLiteral(d) ==
    /\ d # <<>>
    /\ \A i \in 1..Len(d) :
           \/ IsDigit(d[i])
           \/ d[i] = "_" /\ i > 1 /\ i < Len(d) /\ IsDigit(d[i - 1]) /\ IsDigit(d[i + 1])

\* int(str): surrounding whitespace is ignored, then an optional sign and a
\* literal; anything else raises ValueError.  The whitespace of int() is that
\* of str.strip without the separators \x1c, \x1d, \x1e and \x1f: int("\x1f5")
\* raises ValueError.
IntStr(s) ==
    LET t == Strip(s, Whitespace \ {"", "", "", ""})
        neg == t # <<>> /\ Head(t) = "-"
        d == IF t # <<>> /\ Head(t) \in {"+", "-"} THEN Tail(t) ELSE t
        good == IsLiteral(d)
    IN  [ok |-> good, val |-> IF good THEN (IF neg THEN 0 - DecVal(d) ELSE DecVal(d)) ELSE 0]

\* int(float) for a float given in tenths: the fraction is cut off
IntFloat(tenths) == IF tenths >= 0 THEN tenths \div 10 ELSE 0 - ((0 - tenths) \div 10)

----------------------------------------------------------------------------
(* JSON values, as tagged tuples *)

JAbsent == <<"absent">>            \* the key is not in the object
JNull == <<"null">>
JInt(n) == <<"int", n>>
JFloat(tenths) == <<"float", tenths>>   \* a float, in tenths
JStr(s) == <<"str", s>>            \* s is a character string
JList(l) == <<"list", l>>          \* l is a sequence of JSON values
JObj(o) == <<"obj", o>>            \* o is a record of JSON values

Tag(v) == v[1]

\* Python truthiness of a JSON value: None, 0, 0.0, "", [] and {} are false
Truthy(v) ==
    CASE Tag(v) \in {"absent", "null"} -> FALSE
      [] Tag(v) \in {"int", "float"} -> v[2] # 0
      [] Tag(v) \in {"str", "list"} -> v[2] # <<>>
      [] Tag(v) = "obj" -> \E k \in DOMAIN v[2] : v[2][k] # JAbsent
      [] OTHER -> TRUE

\* dict.get(k, default), default given as a JSON value
Get(d, k, default) == IF d[k] = JAbsent THEN default ELSE d[k]

\* the keys of a search document that the code reads
DocKeys == {"title", "slug", "id", "author_names", "release_year", "rating",
            "users_count", "name", "books_count", "books", "author_name", "user",
            "image_url"}

\* the document {}: no key at all
EmptyDoc == [k \in DocKeys |-> JAbsent]

\* `if document:` -- a dict is true when it has a key
DocTruthy(d) == \E k \in DocKeys : d[k] # JAbsent

----------------------------------------------------------------------------
(* Displayed text: a sequence of fragments *)

Lit(s) == <<"lit", s>>          \* a literal of the source
Chars(cs) == <<"chars", cs>>    \* a character string
Val(v) == <<"val", v>>          \* str() of a JSON value
Fmt1f(v) == <<"fmt.1f", v>>     \* a number formatted with :.1f

RECURSIVE Join(_, _)
\* sep.join(parts), parts a sequence of texts
Join(parts, sep) ==
    IF parts = <<>> THEN <<>>
    ELSE IF Len(parts) = 1 THEN parts[1]
    ELSE parts[1] \o <<sep>> \o Join(Tail(parts), sep)

HARDCOVER_BASE_URL == "https://hardcover.app"

HideWindowAction == [type |-> "HideWindowAction"]
OpenUrlAction(segment, slug) ==
    [type |-> "OpenUrlAction", url |-> <<Lit(HARDCOVER_BASE_URL), Lit("/"), Lit(segment), Lit("/"), Val(slug)>>]
CopyToClipboardAction(text) == [type |-> "CopyToClipboardAction", text |-> text]
ExtensionCustomAction(data) == [type |-> "ExtensionCustomAction", data |-> data, keep_app_open |-> TRUE]
NoAction == [type |-> "None"]

ExtensionResultItem(name, description, on_enter, on_alt_enter) ==
    [name |-> name, description |-> description, on_enter |-> on_enter, on_alt_enter |-> on_alt_enter]

----------------------------------------------------------------------------
(* The remote service *)

AccountUserId == <<"7">>                 \* the id of the user the token belongs to, as `me` shows it
AccountUser == IntStr(AccountUserId).val
Books == {1}                             \* book ids the remote service knows
EmptyLibrary == [b \in Books |-> 0]

\* what can come back for one request: no response at all, a non-200 status,
\* a 200 whose body is not JSON, a 200 with `errors`, a 200 with neither `errors`
\* nor `data`, a 200 whose `data` is null, a 200 with the data asked for
Outcomes ==
    { [net |-> "fail", status |-> 0,   shape |-> "none"],
      [net |-> "ok",   status |-> 500, shape |-> "any"],
      [net |-> "ok",   status |-> 200, shape |-> "notjson"],
      [net |-> "ok",   status |-> 200, shape |-> "errors"],
      [net |-> "ok",   status |-> 200, shape |-> "nocontainer"],
      [net |-> "ok",   status |-> 200, shape |-> "nulldata"],
      [net |-> "ok",   status |-> 200, shape |-> "data"] }

\* the rows user_books(where user_id = u and book_id = b, limit 1) selects
UserBooks(lib, u, b) ==
    IF u = AccountUser /\ b \in Books /\ lib[b] # 0
    THEN <<[id |-> b, status_id |-> lib[b]]>>
    ELSE <<>>

\* insert_user_book(book_id = b, status_id = s): one entry per user and book
Inserted(lib, b, s) == IF b \in Books THEN [lib EXCEPT ![b] = s] ELSE lib

----------------------------------------------------------------------------
(* main.py: class HardcoverAPI *)

DoubleQuote == "\""
SingleQuote == "'"
BearerPrefix == <<"B", "e", "a", "r", "e", "r", " ">>

\* an HTTP header: absent, or present with a value
NoHeader == [present |-> FALSE, value |-> <<>>]
Header(v) == [present |-> TRUE, value |-> v]

\* self.api_token of main.py's client
MainToken(raw) ==
    IF raw # <<>>
    THEN Strip(Strip(Strip(raw, Whitespace), {DoubleQuote}), {SingleQuote})
    ELSE <<>>

\* self.headers["Authorization"] of main.py's client
MainAuth(raw) ==
    IF MainToken(raw) # <<>> THEN Header(BearerPrefix \o MainToken(raw)) ELSE NoHeader

\* one outbound request, as the log keeps it: who sent it, what for, with which
\* credential and arguments, what came back, and whether the client call that
\* sent it raised to its caller
Req(client, name, auth, args, resp, raised) ==
    [client |-> client, op |-> name, auth |-> auth, args |-> args, resp |-> resp, raised |-> raised]

\* response.status_code == 200 and response.json() returned
Json200(resp) == resp.net = "ok" /\ resp.status = 200 /\ resp.shape # "notjson"

\* the `me` object {}: no key at all
MeKeys == {"id", "username", "name"}
EmptyMe == [k \in MeKeys |-> JAbsent]

\* HardcoverAPI.get_user_info; me is the value of data.me in a "data" response
get_user_info(raw, resp, me) ==
    LET value ==
            IF resp.net = "fail" THEN JNull                     \* except Exception
            ELSE IF resp.status # 200 THEN JNull
            ELSE IF resp.shape = "notjson" THEN JNull           \* except Exception
            ELSE IF resp.shape = "errors" THEN JNull
            ELSE IF resp.shape = "nulldata" THEN JNull          \* None.get: except Exception
            ELSE IF resp.shape = "nocontainer" THEN JObj(EmptyMe)
            ELSE Get([me |-> me], "me", JObj(EmptyMe))          \* .get("me", {})
    IN  [value |-> value,
         reqs |-> <<Req("main", "me", MainAuth(raw), <<>>, resp, FALSE)>>]

NoEntry == [found |-> FALSE, id |-> 0, status_id |-> 0]
Entry(row) == [found |-> TRUE, id |-> row.id, status_id |-> row.status_id]

\* a lookup that is sent a second time when the first got no usable answer:
\* what the code would do if it retried
check_book_in_library_Retries(raw, user_id, book_id, resp, lib) ==
    LET once == Req("main", "lookup", MainAuth(raw), <<user_id, book_id>>, resp, FALSE)
        good == Json200(resp) /\ resp.shape = "data"
    IN  [value |-> IF good /\ UserBooks(lib, user_id, book_id) # <<>>
                   THEN Entry(UserBooks(lib, user_id, book_id)[1]) ELSE NoEntry,
         reqs |-> IF good THEN <<once>> ELSE <<once, once>>]

\* HardcoverAPI.check_book_in_library: the first matching row, or None
check_book_in_library(raw, user_id, book_id, resp, lib) ==
    LET user_books ==
            IF resp.net = "fail" THEN <<>>                      \* except Exception: None
            ELSE IF resp.status # 200 THEN <<>>
            ELSE IF resp.shape = "notjson" THEN <<>>
            ELSE IF resp.shape = "errors" THEN <<>>
            ELSE IF resp.shape = "nulldata" THEN <<>>
            ELSE IF resp.shape = "nocontainer" THEN <<>>        \* .get("user_books", [])
            ELSE UserBooks(lib, user_id, book_id)
    IN  [value |-> IF user_books # <<>> THEN Entry(user_books[1]) ELSE NoEntry,
         reqs |-> <<Req("main", "lookup", MainAuth(raw), <<user_id, book_id>>, resp, FALSE)>>]

\* the variables of the mutation: rating only when one is given
Variables(book_id, status_id, rating) ==
    IF rating = JNull THEN <<book_id, status_id>> ELSE <<book_id, status_id, rating>>

\* an add that does not look for `errors`: any 200 answer with a JSON body counts
\* as success
add_book_to_library_IgnoresErrors(raw, book_id, status_id, rating, resp, inserted) ==
    [value |-> IF Json200(resp)
               THEN [success |-> TRUE, error |-> Lit("")]
               ELSE [success |-> FALSE, error |-> Lit("str(e)")],
     reqs |-> <<Req("main", "insert", MainAuth(raw), Variables(book_id, status_id, rating), resp, FALSE)>>]

\* HardcoverAPI.add_book_to_library(book_id, status_id, rating), rating JNull for
\* None; inserted is the insert_user_book object of a "data" response: TRUE when
\* the service returned the row it wrote
add_book_to_library(raw, book_id, status_id, rating, resp, inserted) ==
    LET value ==
            IF resp.net = "fail" THEN [success |-> FALSE, error |-> Lit("str(e)")]
            ELSE IF resp.status # 200 THEN [success |-> FALSE, error |-> Lit("HTTP status")]
            ELSE IF resp.shape = "notjson" THEN [success |-> FALSE, error |-> Lit("str(e)")]
            ELSE IF resp.shape = "errors" THEN [success |-> FALSE, error |-> Lit("str(errors)")]
            ELSE IF resp.shape = "nulldata" THEN [success |-> FALSE, error |-> Lit("str(e)")]
            ELSE IF resp.shape = "nocontainer" THEN [success |-> FALSE, error |-> Lit("No data returned")]
            ELSE IF inserted THEN [success |-> TRUE, error |-> Lit("")]
            ELSE [success |-> FALSE, error |-> Lit("No data returned")]
    IN  [value |-> value,
         reqs |-> <<Req("main", "insert", MainAuth(raw), Variables(book_id, status_id, rating), resp, FALSE)>>]

\* a hit of data.search.results.hits: an object with or without a "document"
Hit(doc) == [has_document |-> TRUE, document |-> doc]
HitNoDocument == [has_document |-> FALSE, document |-> EmptyDoc]

\* hit.get("document", {})
HitDocument(hit) == IF hit.has_document THEN hit.document ELSE EmptyDoc

RECURSIVE ExtractDocuments(_)
\* the loop of search over the hits: the truthy documents, in hit order
ExtractDocuments(hits) ==
    IF hits = <<>> THEN <<>>
    ELSE IF DocTruthy(HitDocument(Head(hits)))
         THEN <<HitDocument(Head(hits))>> \o ExtractDocuments(Tail(hits))
         ELSE ExtractDocuments(Tail(hits))

\* HardcoverAPI.search; body is the value of data.search.results in a "data"
\* response: [envelope |-> "hits", hits |-> ..] for an object with hits, or
\* [envelope |-> "strings", ..] for a list of JSON-encoded strings
search(raw, query, query_type, per_page, resp, body) ==
    LET value ==
            IF resp.net = "fail" THEN <<>>                      \* except Exception
            ELSE IF resp.status # 200 THEN <<>>
            ELSE IF resp.shape = "notjson" THEN <<>>            \* except Exception
            ELSE IF resp.shape = "errors" THEN <<>>
            ELSE IF resp.shape = "nulldata" THEN <<>>           \* None.get: except Exception
            ELSE IF resp.shape = "nocontainer" THEN <<>>        \* {}.get("hits", [])
            ELSE IF body.envelope = "strings" THEN <<>>         \* list.get: except Exception
            ELSE ExtractDocuments(body.hits)
    IN  [value |-> value,
         reqs |-> <<Req("main", "search", MainAuth(raw), <<query, query_type, per_page, 1>>, resp, FALSE)>>]

----------------------------------------------------------------------------
(* main.py: the item builders.  Emoji of the source are written as words. *)


\* int(book.get("id")) of create_book_item: None when the id is missing, null
\* or not convertible; a float id loses its fraction
BookId(book) ==
    LET v == book["id"]
    IN  CASE Tag(v) = "int" -> [some |-> TRUE, val |-> v[2]]
          [] Tag(v) = "float" -> [some |-> TRUE, val |-> IntFloat(v[2])]
          [] Tag(v) = "str" -> [some |-> IntStr(v[2]).ok, val |-> IntStr(v[2]).val]
          [] OTHER -> [some |-> FALSE, val |-> 0]

\* ", ".join(l) raises TypeError when an element of l is not a string
JoinRaises(l) == \E i \in 1..Len(l) : Tag(l[i]) # "str"

\* ", ".join(l) is the empty string: no element, or one empty string
JoinEmpty(l) == l = <<>> \/ (Len(l) = 1 /\ Tag(l[1]) = "str" /\ l[1][2] = <<>>)

\* f"{rating:.1f}" raises for a rating that is not a number
RatingRaises(book) ==
    LET rating == Get(book, "rating", JStr(<<>>))
    IN  Truthy(rating) /\ Tag(rating) \notin {"int", "float"}

\* what create_book_item raises, "none" when it returns: the join of the
\* author names comes first, then the format of the rating (ValueError for a
\* string, TypeError for a list or an object)
BookException(book) ==
    LET author_names == Get(book, "author_names", JList(<<>>))
        rating == Get(book, "rating", JStr(<<>>))
    IN  IF Tag(author_names) = "list" /\ JoinRaises(author_names[2]) THEN "TypeError"
        ELSE IF RatingRaises(book)
        THEN (IF Tag(rating) = "str" THEN "ValueError" ELSE "TypeError")
        ELSE "none"

\* desc_parts of create_book_item
BookDescParts(book) ==
    LET author_names == Get(book, "author_names", JList(<<>>))
        release_year == Get(book, "release_year", JStr(<<>>))
        rating == Get(book, "rating", JStr(<<>>))
        users_count == Get(book, "users_count", JInt(0))
        \* `if authors_str:` -- the joined string, not the list, is tested
        authors == Tag(author_names) = "list" /\ ~JoinEmpty(author_names[2])
    IN  (IF authors THEN << <<Lit("By "), Lit("join , "), Val(author_names)>> >> ELSE <<>>)
        \o (IF Truthy(release_year) THEN << <<Val(release_year)>> >> ELSE <<>>)
        \o (IF Truthy(rating) THEN << <<Lit("star "), Fmt1f(rating)>> >> ELSE <<>>)
        \o (IF Truthy(users_count) THEN << <<Lit("readers "), Val(users_count)>> >> ELSE <<>>)

\* create_book_item(book, user_id, api); resp is what the library lookup gets
\* back when the builder issues one
create_book_item(book, user_id, raw, resp, lib) ==
    LET title == Get(book, "title", JStr(<<"Unknown Title">>))
        slug == Get(book, "slug", JStr(<<>>))
        book_id == BookId(book)
        has_id == book_id.some /\ book_id.val # 0
        parts == BookDescParts(book)
        base == IF parts # <<>> THEN Join(parts, Lit(" | ")) ELSE <<Lit("Book")>>
        checks == user_id # <<>> /\ has_id
        \* int(user_id) raising is caught by the builder: no request, not in library
        looks == checks /\ IntStr(user_id).ok
        call == check_book_in_library(raw, IntStr(user_id).val, book_id.val, resp, lib)
        in_library == looks /\ call.value.found
        marked == IF in_library THEN <<Lit("[books] In Library | ")>> \o base ELSE base
        offers == user_id # <<>> /\ ~in_library /\ has_id
        on_alt_enter ==
            IF offers
            THEN ExtensionCustomAction([action |-> JStr(<<"add_to_library">>), book_id |-> JInt(book_id.val),
                                        book_title |-> title, user_id |-> JStr(user_id)])
            ELSE NoAction
        description == IF offers THEN marked \o <<Lit(" | Alt+Enter to add")>> ELSE marked
    IN  IF BookException(book) # "none"
        THEN [raised |-> TRUE, exception |-> BookException(book), item |-> NoAction, reqs |-> <<>>]
        ELSE [raised |-> FALSE, exception |-> "none",
              item |-> ExtensionResultItem(<<Val(title)>>, description,
                                           OpenUrlAction("books", slug), on_alt_enter),
              reqs |-> IF looks THEN call.reqs ELSE <<>>]

\* books[:3] joined, "..." appended when there are more
BooksPreview(books) ==
    <<Lit("join , "), Val(JList(SubSeq(books[2], 1, IF Len(books[2]) > 3 THEN 3 ELSE Len(books[2]))))>>
    \o (IF Len(books[2]) > 3 THEN <<Lit("...")>> ELSE <<>>)

\* ", ".join(books[:3]) raises TypeError when one of the first three titles
\* is not a string
AuthorRaises(author) ==
    LET books == Get(author, "books", JList(<<>>))
    IN  /\ Tag(books) = "list"
        /\ JoinRaises(SubSeq(books[2], 1, IF Len(books[2]) > 3 THEN 3 ELSE Len(books[2])))

\* create_author_item(author)
create_author_item(author) ==
    LET name == Get(author, "name", JStr(<<"Unknown Author">>))
        slug == Get(author, "slug", JStr(<<>>))
        books_count == Get(author, "books_count", JInt(0))
        books == Get(author, "books", JList(<<>>))
        count == <<Lit("[books] "), Val(books_count), Lit(" books")>>
        description ==
            IF Tag(books) = "list" /\ books[2] # <<>>
            THEN count \o <<Lit(" | ")>> \o BooksPreview(books)
            ELSE count
    IN  IF AuthorRaises(author)
        THEN [raised |-> TRUE, exception |-> "TypeError", item |-> NoAction]
        ELSE [raised |-> FALSE, exception |-> "none",
              item |-> ExtensionResultItem(<<Val(name)>>, description,
                                           OpenUrlAction("authors", slug), NoAction)]

\* create_series_item(series)
create_series_item(series) ==
    LET name == Get(series, "name", JStr(<<"Unknown Series">>))
        slug == Get(series, "slug", JStr(<<>>))
        author_name == Get(series, "author_name", JStr(<<>>))
        books_count == Get(series, "books_count", JInt(0))
        parts ==
            (IF Truthy(author_name) THEN << <<Lit("By "), Val(author_name)>> >> ELSE <<>>)
            \o (IF Truthy(books_count) THEN << <<Val(books_count), Lit(" books")>> >> ELSE <<>>)
        description == IF parts # <<>> THEN Join(parts, Lit(" | ")) ELSE <<Lit("Series")>>
    IN  ExtensionResultItem(<<Val(name)>>, description, OpenUrlAction("series", slug), NoAction)

\* create_list_item(list_data)
create_list_item(list_data) ==
    LET name == Get(list_data, "name", JStr(<<"Untitled List">>))
        slug == Get(list_data, "slug", JStr(<<>>))
        books_count == Get(list_data, "books_count", JInt(0))
        user == Get(list_data, "user", JObj([username |-> JAbsent]))
        username ==
            IF Tag(user) = "obj"
            THEN Get(user[2], "username", JStr(<<"Unknown">>))
            ELSE JStr(<<"Unknown">>)
        owner == <<Lit("By @"), Val(username)>>
        description ==
            IF Truthy(books_count)
            THEN owner \o <<Lit(" | "), Val(books_count), Lit(" books")>>
            ELSE owner
    IN  ExtensionResultItem(<<Val(name)>>, description, OpenUrlAction("lists", slug), NoAction)

----------------------------------------------------------------------------
(* main.py: KeywordQueryEventListener.on_event *)

\* a preference: not set, or set to a character string
NoPref == [present |-> FALSE, value |-> <<>>]
Pref(v) == [present |-> TRUE, value |-> v]

\* extension.preferences.get(key, default)
PrefGet(prefs, key, default) == IF prefs[key].present THEN prefs[key].value ELSE default

W_author == <<"a","u","t","h","o","r">>
W_authors == <<"a","u","t","h","o","r","s">>
W_series == <<"s","e","r","i","e","s">>
W_list == <<"l","i","s","t">>
W_lists == <<"l","i","s","t","s">>
W_me == <<"m","e">>
W_whoami == <<"w","h","o","a","m","i">>

HideItem(name, description) ==
    ExtensionResultItem(<<Lit(name)>>, <<Lit(description)>>, HideWindowAction, NoAction)

Rendered(items, requests) ==
    [out |-> [raised |-> FALSE, kind |-> "RenderResultListAction", items |-> items], reqs |-> requests]
Raised(exception, requests) ==
    [out |-> [raised |-> TRUE, kind |-> exception, items |-> <<>>], reqs |-> requests]

\* the help list shown for the empty query
HelpItems(user_id) ==
    <<HideItem("Search Hardcover", "Type to search for books, authors, series, or lists")>>
    \o (IF user_id # <<>>
        THEN <<HideItem("Add to Library", "Alt+Enter on any book to add to Want to Read")>>
        ELSE <<>>)
    \o <<HideItem("Get User Info", "hc me - Get your user ID"),
         HideItem("Books (default)", "hc <book name>"),
         HideItem("Authors", "hc author <name>"),
         HideItem("Series", "hc series <name>")>>

\* `if user_info:` -- a non-empty object, list or string and a number other
\* than 0 are true; None, {}, [], "" and 0 are false
MeTruthy(v) ==
    CASE Tag(v) = "obj" -> \E k \in MeKeys : v[2][k] # JAbsent
      [] Tag(v) \in {"list", "str"} -> v[2] # <<>>
      [] Tag(v) \in {"int", "float"} -> v[2] # 0
      [] OTHER -> FALSE

\* the branch of on_event for "me" / "whoami"
UserInfoBranch(api_token, resp, me) ==
    LET call == get_user_info(api_token, resp, me)
        user_info == call.value
        id == Get(user_info[2], "id", JNull)
        username == Get(user_info[2], "username", JNull)
        shown == Get(user_info[2], "name", Get(user_info[2], "username", JStr(<<"User">>)))
    IN  IF MeTruthy(user_info)
        THEN IF Tag(user_info) = "obj"
             THEN Rendered(<<ExtensionResultItem(
                                <<Lit("Hello, "), Val(shown), Lit("!")>>,
                                <<Lit("User ID: "), Val(id), Lit(" | Username: @"), Val(username),
                                  Lit(" | Copy your User ID and add it to preferences")>>,
                                CopyToClipboardAction(<<Val(id)>>), NoAction)>>,
                           call.reqs)
             ELSE Raised("AttributeError", call.reqs)      \* .get of a list, str or number
        ELSE Rendered(<<HideItem("Error getting user info", "Check your API token")>>, call.reqs)

\* query_type of on_event, from the fields of the query
QueryType(parts) ==
    LET command == Lower(parts[1])
    IN  IF command \in {W_author, W_authors} /\ Len(parts) > 1 THEN "Author"
        ELSE IF command \in {W_series} /\ Len(parts) > 1 THEN "Series"
        ELSE IF command \in {W_list, W_lists} /\ Len(parts) > 1 THEN "List"
        ELSE "Book"

\* a search text that drops the first word of every query, kind keyword or not
SearchQuery_KeepsRemainder(query, parts) == IF Len(parts) > 1 THEN parts[2] ELSE query

\* search_query of on_event
SearchQuery(query, parts) ==
    LET first == IF Len(parts) > 1 THEN parts[2] ELSE query
    IN  IF QueryType(parts) = "Book"
           /\ Lower(parts[1]) \notin {W_author, W_authors, W_series, W_list, W_lists}
        THEN query
        ELSE first

\* the k-th lookup of an invocation reads the library libs[k]: the handler waits
\* for each answer, and the account's library can change while it does
LibAt(libs, k) == IF k \in 1..Len(libs) THEN libs[k] ELSE EmptyLibrary

\* the k-th lookup of an invocation gets lk[k]
OutcomeAt(lk, k) == IF k \in 1..Len(lk) THEN lk[k] ELSE [net |-> "fail", status |-> 0, shape |-> "none"]

\* the lookup requests of an invocation, in order
LookupsOf(requests) == SelectSeq(requests, LAMBDA r : r.op = "lookup")

\* one turn of the loop of on_event over the results: acc is
\* [raised, exception, items, reqs] so far
CreateItem(result, query_type, user_id, api_token, lk, libs, acc) ==
    IF query_type = "Book"
    THEN Bind(Len(LookupsOf(acc.reqs)) + 1, LAMBDA k :
         Bind(create_book_item(result, user_id, api_token, OutcomeAt(lk, k), LibAt(libs, k)),
              LAMBDA built :
                  [raised |-> built.raised,
                   exception |-> built.exception,
                   items |-> IF built.raised THEN acc.items ELSE Append(acc.items, built.item),
                   reqs |-> acc.reqs \o built.reqs]))
    ELSE IF query_type = "Author"
    THEN Bind(create_author_item(result),
              LAMBDA built :
                  [raised |-> built.raised,
                   exception |-> built.exception,
                   items |-> IF built.raised THEN acc.items ELSE Append(acc.items, built.item),
                   reqs |-> acc.reqs])
    ELSE IF query_type = "Series"
    THEN [acc EXCEPT !.items = Append(@, create_series_item(result))]
    ELSE [acc EXCEPT !.items = Append(@, create_list_item(result))]

RECURSIVE CreateItems(_, _, _, _, _, _, _, _)
\* the loop of on_event over the results, from the i-th on; it ends when a
\* builder raises
CreateItems(results, i, query_type, user_id, api_token, lk, libs, acc) ==
    IF i > Len(results) \/ acc.raised THEN acc
    ELSE Bind(CreateItem(results[i], query_type, user_id, api_token, lk, libs, acc),
              LAMBDA next : CreateItems(results, i + 1, query_type, user_id, api_token, lk, libs, next))

NoResultsItem(search_query) ==
    ExtensionResultItem(<<Lit("No results found")>>,
                        <<Lit("No results for \""), Chars(search_query), Lit("\"")>>,
                        HideWindowAction, NoAction)

\* the search branch of on_event
SearchBranch(query, api_token, user_id, limit, resp, body, lk, libs) ==
    Bind(Split1(query), LAMBDA parts :
        IF parts = <<>> THEN Raised("IndexError", <<>>)       \* parts[0]
        ELSE Bind(search(api_token, SearchQuery(query, parts), QueryType(parts), limit, resp, body),
                  LAMBDA call :
             Bind(CreateItems(call.value, 1, QueryType(parts), user_id, api_token, lk, libs,
                              [raised |-> FALSE, exception |-> "none", items |-> <<>>,
                               reqs |-> call.reqs]),
                  LAMBDA made :
                      IF made.raised THEN Raised(made.exception, made.reqs)
                      ELSE IF made.items = <<>>
                      THEN Rendered(<<NoResultsItem(SearchQuery(query, parts))>>, made.reqs)
                      ELSE Rendered(made.items, made.reqs))))

\* a token test without the strip: only the empty token counts as missing
TokenMissing_NoStrip(api_token) == api_token = <<>>

\* `not api_token or not api_token.strip()`
TokenMissing(api_token) == api_token = <<>> \/ Strip(api_token, Whitespace) = <<>>

\* KeywordQueryEventListener.on_event: resp, body and me are what the search or
\* user-info request gets back, lk what the library lookups get back and libs
\* the library each of them reads, in order
KeywordQuery_on_event(prefs, query, resp, body, me, lk, libs) ==
    LET api_token == PrefGet(prefs, "api_token", <<>>)
        user_id == PrefGet(prefs, "user_id", <<>>)
        parsed == IntStr(PrefGet(prefs, "results_limit", <<"1", "0">>))
        limit == IF parsed.ok THEN parsed.val ELSE 10
    IN  IF TokenMissing(api_token)
        THEN Rendered(<<HideItem("API Token Required",
                                 "Please set your Hardcover API token in extension preferences")>>,
                      <<>>)
        ELSE IF Lower(query) \in {W_me, W_whoami} THEN UserInfoBranch(api_token, resp, me)
        ELSE IF query = <<>> THEN Rendered(HelpItems(user_id), <<>>)
        ELSE SearchBranch(query, api_token, user_id, limit, resp, body, lk, libs)

----------------------------------------------------------------------------
(* main.py: ItemEnterEventListener.on_event *)

\* int(v) for a value of the action payload: TypeError for None, ValueError for
\* a string that is no integer; a float loses its fraction
IntOf(v) ==
    CASE Tag(v) = "int" -> [ok |-> TRUE, val |-> v[2]]
      [] Tag(v) = "float" -> [ok |-> TRUE, val |-> IntFloat(v[2])]
      [] Tag(v) = "str" -> IntStr(v[2])
      [] OTHER -> [ok |-> FALSE, val |-> 0]

\* status_names.get(status_id, "Unknown")
StatusName(status_id) ==
    CASE status_id = 1 -> "Want to Read"
      [] status_id = 2 -> "Currently Reading"
      [] status_id = 3 -> "Read"
      [] status_id = 4 -> "Paused"
      [] status_id = 5 -> "Did Not Finish"
      [] status_id = 6 -> "Ignored"
      [] OTHER -> "Unknown"

\* an add_to_library branch that sends the mutation whatever the lookup found
AddToLibraryBranch_AddsAnyway(api_token, data, lkresp, mresp, inserted, lib) ==
    LET book_id == IntOf(data.book_id)
        book_title == Get(data, "book_title", JNull)                 \* data.get("book_title")
        user_id == IntOf(data.user_id)
        look == check_book_in_library(api_token, user_id.val, book_id.val, lkresp, lib)
        add == add_book_to_library(api_token, book_id.val, 1, JNull, mresp, inserted)
    IN  IF ~book_id.ok \/ ~user_id.ok
        THEN Rendered(<<HideItem("Error", "Invalid book or user ID")>>, <<>>)
        ELSE IF add.value.success
        THEN Rendered(<<ExtensionResultItem(
                           <<Lit("[check] Added to Want to Read")>>,
                           <<Lit("\""), Val(book_title), Lit("\" has been added to your library")>>,
                           HideWindowAction, NoAction)>>,
                      look.reqs \o add.reqs)
        ELSE Rendered(<<ExtensionResultItem(
                           <<Lit("Error Adding Book")>>,
                           <<Lit("Error: "), add.value.error>>,
                           HideWindowAction, NoAction)>>,
                      look.reqs \o add.reqs)

\* the add_to_library branch of on_event
AddToLibraryBranch(api_token, data, lkresp, mresp, inserted, lib) ==
    LET book_id == IntOf(data.book_id)
        book_title == Get(data, "book_title", JNull)                 \* data.get("book_title")
        user_id == IntOf(data.user_id)
        look == check_book_in_library(api_token, user_id.val, book_id.val, lkresp, lib)
        existing == look.value
        add == add_book_to_library(api_token, book_id.val, 1, JNull, mresp, inserted)
    IN  IF ~book_id.ok \/ ~user_id.ok
        THEN Rendered(<<HideItem("Error", "Invalid book or user ID")>>, <<>>)
        ELSE IF existing.found
        THEN Rendered(<<ExtensionResultItem(
                           <<Lit("Book Already in Library")>>,
                           <<Lit("\""), Val(book_title), Lit("\" is already marked as \""),
                             Lit(StatusName(existing.status_id)), Lit("\"")>>,
                           HideWindowAction, NoAction)>>,
                      look.reqs)
        ELSE IF add.value.success
        THEN Rendered(<<ExtensionResultItem(
                           <<Lit("[check] Added to Want to Read")>>,
                           <<Lit("\""), Val(book_title), Lit("\" has been added to your library")>>,
                           HideWindowAction, NoAction)>>,
                      look.reqs \o add.reqs)
        ELSE Rendered(<<ExtensionResultItem(
                           <<Lit("Error Adding Book")>>,
                           <<Lit("Error: "), add.value.error>>,
                           HideWindowAction, NoAction)>>,
                      look.reqs \o add.reqs)

\* ItemEnterEventListener.on_event
ItemEnter_on_event(prefs, data, lkresp, mresp, inserted, lib) ==
    IF data.action = JStr(<<"add_to_library">>)
    THEN AddToLibraryBranch(PrefGet(prefs, "api_token", <<>>), data, lkresp, mresp, inserted, lib)
    ELSE [out |-> [raised |-> FALSE, kind |-> "HideWindowAction", items |-> <<>>], reqs |-> <<>>]

\* the library after the requests of one invocation: an insert the service
\* answered with the row it wrote is in the library
RECURSIVE LibraryAfter(_, _, _)
LibraryAfter(lib, requests, inserted) ==
    IF requests = <<>> THEN lib
    ELSE LET r == Head(requests)
             wrote == r.op = "insert" /\ Json200(r.resp) /\ r.resp.shape = "data" /\ inserted
         IN  LibraryAfter(IF wrote THEN Inserted(lib, r.args[1], r.args[2]) ELSE lib,
                          Tail(requests), inserted)

----------------------------------------------------------------------------
(* api.py: class HardcoverAPI *)

\* self.api_token of api.py's client
ApiToken(raw) == Strip(Replace(raw, BearerPrefix, <<>>), Whitespace)

\* self.headers["Authorization"] of api.py's client
ApiAuth(raw) == Header(BearerPrefix \o ApiToken(raw))

\* r.raise_for_status() raises for a 4xx or 5xx status
StatusRaises(resp) == resp.status >= 400

\* doc.get(k): None when the key is missing
GetOrNone(d, k) == Get(d, k, JNull)

\* doc.get('author_names', ["Unknown"])[0] raises for a true author_names that
\* is an object or a number
RecordRaises(hit) ==
    LET author_names == GetOrNone(HitDocument(hit), "author_names")
    IN  Truthy(author_names) /\ Tag(author_names) \notin {"list", "str"}

\* the record search_books builds from one hit
SearchBooksRecord(hit) ==
    LET doc == HitDocument(hit)
        author_names == GetOrNone(doc, "author_names")
    IN  [id |-> GetOrNone(doc, "id"),
         title |-> GetOrNone(doc, "title"),
         slug |-> GetOrNone(doc, "slug"),
         author |-> IF ~Truthy(author_names) THEN JStr(<<"Unknown">>)
                    ELSE IF Tag(author_names) = "str" THEN JStr(<<author_names[2][1]>>)
                    ELSE author_names[2][1],
         image |-> GetOrNone(doc, "image_url")]

\* HardcoverAPI.search_books; hits is the top-level `hits` of a "data" response
search_books(query, resp, hits) ==
    LET value ==
            IF resp.net = "fail" THEN <<>>                      \* except Exception
            ELSE IF StatusRaises(resp) THEN <<>>                \* except Exception
            ELSE IF resp.shape = "notjson" THEN <<>>            \* except Exception
            ELSE IF resp.shape # "data" THEN <<>>               \* data.get('hits', [])
            ELSE IF \E i \in 1..Len(hits) : RecordRaises(hits[i]) THEN <<>>   \* except Exception
            ELSE [i \in 1..Len(hits) |-> SearchBooksRecord(hits[i])]
    IN  IF query = <<>>
        THEN [raised |-> FALSE, value |-> <<>>, reqs |-> <<>>]
        ELSE [raised |-> FALSE, value |-> value,
              reqs |-> <<Req("api", "search_books", NoHeader, <<query>>, resp, FALSE)>>]

\* HardcoverAPI._run_query: raises, or returns json_resp.get('data', {})
\* ("empty": {}, "null": None, "data": the data asked for)
run_query(resp) ==
    IF resp.net = "fail" THEN [raised |-> TRUE, data |-> "none"]
    ELSE IF StatusRaises(resp) THEN [raised |-> TRUE, data |-> "none"]
    ELSE IF resp.shape = "notjson" THEN [raised |-> TRUE, data |-> "none"]
    ELSE IF resp.shape = "errors" THEN [raised |-> TRUE, data |-> "none"]
    ELSE IF resp.shape = "nocontainer" THEN [raised |-> FALSE, data |-> "empty"]
    ELSE IF resp.shape = "nulldata" THEN [raised |-> FALSE, data |-> "null"]
    ELSE [raised |-> FALSE, data |-> "data"]

\* HardcoverAPI.get_user_lists; me is data.me of a "data" response
get_user_lists(raw, resp, me) ==
    LET got == run_query(resp)
        raises ==
            \/ got.raised
            \/ got.data = "null"                                      \* None.get
            \/ got.data = "data" /\ Tag(me) = "list" /\ me[2] = <<>>  \* [][0]
            \/ got.data = "data" /\ Tag(me) \notin {"list", "absent"} \* me[0] of a non-list
        value ==
            IF got.data = "data" /\ Tag(me) = "list"
            THEN Get(me[2][1], "lists", JList(<<>>))
            ELSE JList(<<>>)                                          \* [{}][0].get('lists', [])
    IN  [raised |-> raises, value |-> IF raises THEN JNull ELSE value,
         reqs |-> <<Req("api", "get_user_lists", ApiAuth(raw), <<>>, resp, raises)>>]

\* the record get_user_books_by_status builds from one user_books entry;
\* contributions is "absent", "named" or "noauthor" (an entry without author)
UserBookRecord(entry) ==
    [title |-> entry.title, slug |-> entry.slug,
     author |-> IF entry.contributions = "named" THEN entry.author ELSE JStr(<<"Unknown">>)]

\* HardcoverAPI.get_user_books_by_status; me is data.me of a "data" response
get_user_books_by_status(raw, status_id, resp, me) ==
    LET got == run_query(resp)
        listed == got.data = "data" /\ Tag(me) = "list" /\ me[2] # <<>>
        user_books == IF listed THEN Get(me[2][1], "user_books", JList(<<>>))[2] ELSE <<>>
        raises ==
            \/ got.raised
            \/ got.data = "null"                                      \* None.get
            \* `if not me: return []`, then me[0].get of a non-empty dict, str or number
            \/ got.data = "data" /\ Truthy(me) /\ Tag(me) # "list"
            \/ \E i \in 1..Len(user_books) : user_books[i].contributions = "noauthor"
        value == [i \in 1..Len(user_books) |-> UserBookRecord(user_books[i])]
    IN  [raised |-> raises, value |-> IF raises THEN <<>> ELSE value,
         reqs |-> <<Req("api", "get_user_books_by_status", ApiAuth(raw), <<status_id>>, resp, raises)>>]

\* HardcoverAPI.add_book_to_library of api.py; books is data.books of the first
\* "data" response (the ids the slug resolves to), resp2 answers the mutation
api_add_book_to_library(raw, book_slug, status_id, resp1, books, resp2) ==
    LET got == run_query(resp1)
        raises == got.raised \/ got.data = "null"                     \* None.get
        found == got.data = "data" /\ books # <<>>
        first == Req("api", "get_book_id", ApiAuth(raw), <<book_slug>>, resp1, raises)
        second == Req("api", "insert", ApiAuth(raw), <<books[1], status_id>>, resp2, FALSE)
    IN  IF raises THEN [raised |-> TRUE, value |-> FALSE, reqs |-> <<first>>]
        ELSE IF ~found THEN [raised |-> FALSE, value |-> FALSE, reqs |-> <<first>>]
        ELSE [raised |-> FALSE, value |-> ~run_query(resp2).raised, reqs |-> <<first, second>>]

----------------------------------------------------------------------------
(* The inputs the model draws *)

Credential == <<"a", "b", "c", "1", "2", "3">>

\* raw tokens: up to MaxPieces of these pieces, concatenated

RECURSIVE Concats(_, _)
Concats(pieces, n) ==
    IF n = 0 THEN {<<>>}
    ELSE Concats(pieces, n - 1) \cup {s \o p : s \in Concats(pieces, n - 1), p \in pieces}

RawTokens == Concats({BearerPrefix, <<" ">>, <<DoubleQuote>>, <<SingleQuote>>, Credential}, MaxPieces)

\* the values the host can hold for each preference
TokenPrefs == {NoPref, Pref(<<>>), Pref(<<" ", "\r", "">>), Pref(Credential)}
UserIdPrefs == {NoPref, Pref(AccountUserId), Pref(<<"x">>)}
LimitPrefs == {NoPref, Pref(<<"5">>), Pref(<<"a", "b", "c">>), Pref(<<"", "5">>)}
Preferences == [api_token : TokenPrefs, user_id : UserIdPrefs, results_limit : LimitPrefs]

\* typed queries: up to MaxWords words separated by one space, as they are or
\* with a space before or after, and the blank queries
W_dune == <<"d","u","n","e">>

RECURSIVE Phrases(_)
Phrases(n) ==
    IF n = 0 THEN {}
    ELSE IF n = 1 THEN {W_author, W_authors, <<"A","u","t","h","o","r">>, W_series, W_list, W_lists, W_me, W_whoami, W_dune}
    ELSE Phrases(n - 1) \cup {p \o <<" ">> \o w : p \in Phrases(n - 1), w \in {W_dune, W_me}}

Queries ==
    {<<>>, <<" ">>, <<"", " ">>}
    \cup Phrases(MaxWords)
    \cup {<<" ">> \o p : p \in Phrases(MaxWords)}
    \cup {p \o <<" ">> : p \in Phrases(MaxWords)}

\* search documents: three records of the remote catalogue
DocIdOnly == [EmptyDoc EXCEPT !["id"] = JInt(1)]
DocBadId == [EmptyDoc EXCEPT !["id"] = JStr(<<"x">>), !["slug"] = JStr(<<"s">>)]
DocFull ==
    [EmptyDoc EXCEPT !["id"] = JStr(<<"2">>), !["title"] = JStr(<<"t">>), !["slug"] = JStr(<<"f">>),
                     !["author_names"] = JList(<<JStr(<<"a">>), JStr(<<"b">>)>>),
                     !["release_year"] = JInt(1965), !["rating"] = JFloat(42),
                     !["users_count"] = JInt(9), !["name"] = JStr(<<"n">>),
                     !["books_count"] = JInt(4),
                     !["books"] = JList(<<JStr(<<"p">>), JStr(<<"q">>), JStr(<<"r">>), JStr(<<"s">>)>>),
                     !["author_name"] = JStr(<<"a">>),
                     !["user"] = JObj([username |-> JStr(<<"u">>)])]
Docs == {DocIdOnly, DocBadId, DocFull}


RECURSIVE SeqsUpTo(_, _)
SeqsUpTo(S, n) ==
    IF n = 0 THEN {<<>>}
    ELSE SeqsUpTo(S, n - 1) \cup {Append(s, x) : s \in SeqsUpTo(S, n - 1), x \in S}

\* the hits of a response: each carries one of the documents, the empty
\* document, or none; and one hit whose document has a string for its rating
HitLists ==
    SeqsUpTo({Hit(d) : d \in Docs} \cup {Hit(EmptyDoc), HitNoDocument}, MaxHits)
    \cup {<<Hit([EmptyDoc EXCEPT !["slug"] = JStr(<<"s">>), !["rating"] = JStr(<<"4">>)])>>}

\* an entry of the string-encoded envelope: a JSON-encoded record, or a string
\* that is no JSON

NoBody == [envelope |-> "hits", hits |-> <<>>, strings |-> <<>>]
Bodies ==
    {[envelope |-> "hits", hits |-> h, strings |-> <<>>] : h \in HitLists}
    \cup {[envelope |-> "strings", hits |-> <<>>, strings |-> e] : e \in SeqsUpTo({[wellformed |-> TRUE, record |-> DocIdOnly],
                        [wellformed |-> FALSE, record |-> EmptyDoc]}, MaxHits)}

DataOutcome == [net |-> "ok", status |-> 200, shape |-> "data"]

\* what a search request can get back
SearchAnswers ==
    {[resp |-> r, body |-> NoBody] : r \in Outcomes \ {DataOutcome}}
    \cup {[resp |-> DataOutcome, body |-> b] : b \in Bodies}

\* The keyword handler is run on every query against the probe answers (each
\* failure, and 0 to MaxHits full records), and on one query of each kind against
\* every answer.
ProbeQueries == {W_dune} \cup {w \o <<" ">> \o W_dune : w \in {W_author, W_series, W_list}}
ProbeAnswers ==
    {a \in SearchAnswers :
        a.body.envelope = "hits" /\ \A i \in 1..Len(a.body.hits) : a.body.hits[i] = Hit(DocFull)}
HandlerAnswers(query) == IF query \in ProbeQueries THEN SearchAnswers ELSE ProbeAnswers

\* data.me as main.py's client can receive it
FullMe == [id |-> JInt(AccountUser), username |-> JStr(<<"u">>), name |-> JStr(<<"n">>)]
Mes ==
    {JObj(FullMe), JObj([FullMe EXCEPT !["name"] = JAbsent]), JObj(EmptyMe), JList(<<JObj(FullMe)>>),
     JNull, JAbsent}
MeAnswers ==
    {[resp |-> r, me |-> JNull] : r \in Outcomes \ {DataOutcome}}
    \cup {[resp |-> DataOutcome, me |-> m] : m \in Mes}

\* the payload create_book_item puts on the add offer of the document DocIdOnly
\* for the account's user id
SidePayload ==
    [action |-> JStr(<<"add_to_library">>), book_id |-> JInt(1),
     book_title |-> JStr(<<"Unknown Title">>), user_id |-> JStr(AccountUserId)]

\* payloads of an activated item
Payloads ==
    {[action |-> JStr(<<"add_to_library">>), book_id |-> b, book_title |-> JStr(<<"t">>), user_id |-> u] :
         b \in {JInt(1), JInt(2), JStr(<<"x">>), JStr(<<"", "1">>), JStr(<<" ", "1">>), JNull},
         u \in {JStr(AccountUserId), JStr(<<"8">>), JStr(<<"x">>), JStr(<<"7", "">>), JNull}}
    \cup {SidePayload}
    \cup {[action |-> a, book_id |-> JInt(1), book_title |-> JStr(<<"t">>), user_id |-> JStr(AccountUserId)] :
         a \in {JStr(<<"list_books">>), JAbsent}}
    \cup {[action |-> JStr(<<"add_to_library">>), book_id |-> JInt(1), book_title |-> JAbsent,
           user_id |-> JStr(AccountUserId)]}

\* data.me as api.py's client can receive it
ApiMes ==
    {JAbsent, JNull, JList(<<>>), JObj([lists |-> JAbsent, user_books |-> JList(<<>>)]),
     JObj([lists |-> JAbsent, user_books |-> JAbsent])}
    \cup {JList(<<[lists |-> l, user_books |-> JList(u)]>>) :
             l \in {JAbsent, JList(<<JStr(<<"l">>)>>)},
             u \in SeqsUpTo({[title |-> JStr(<<"t">>), slug |-> JStr(<<"f">>), contributions |-> c,
                              author |-> JStr(<<"a">>)] : c \in {"absent", "named", "noauthor"}},
                            MaxHits)}

----------------------------------------------------------------------------
(* The state machine: the host hands events and calls to the code, and an
   invocation or call that is blocked in a request, waiting for the service's
   answer, leaves room for the others *)

NoOut == [raised |-> FALSE, kind |-> "none", items |-> <<>>]

Init ==
    /\ phase = "idle"
    /\ library = EmptyLibrary
    /\ op = "none"
    /\ inp = <<>>
    /\ out = NoOut
    /\ reqs = <<>>
    /\ added = {}
    /\ waiting = EmptyBag

Dummy == [net |-> "fail", status |-> 0, shape |-> "none"]

\* the first request an invocation of the keyword handler issues: "none", "me" or "search"
FirstRequest(prefs, query) ==
    LET dry == KeywordQuery_on_event(prefs, query, Dummy, NoBody, JNull, <<>>, <<>>)
    IN  IF dry.reqs = <<>> THEN "none" ELSE dry.reqs[1].op

\* the lookups of a probe query get every outcome, those of the other queries
\* a failure or an answer with data
HandlerLookups(query) ==
    IF query \in ProbeQueries THEN {o \in Outcomes : o.shape \in {"none", "any", "errors", "data"}}
    ELSE {Dummy, DataOutcome}

\* a lookup whose answer shows the library: the service answers with data, for
\* the account and a book of the catalogue
ReadsLibrary(request, outcome) ==
    outcome = DataOutcome /\ request.args[1] = AccountUser /\ request.args[2] \in Books

\* the library as the answer to a lookup shows it: lib when the lookup reads
\* it, no entry at all when it does not
Shown(request, outcome, lib) == IF ReadsLibrary(request, outcome) THEN lib ELSE EmptyLibrary

SidePrefs ==
    [api_token |-> Pref(Credential), user_id |-> Pref(AccountUserId), results_limit |-> NoPref]

\* The invocations that are run side by side, each from its start to its
\* return with the others' steps in between: the keyword queries 'dune' and
\* 'me' of the account, an activation of the add offer of its book, and one
\* call of each client operation that sends a request.  An invocation in
\* `waiting` is [op, inp]; inp holds the arguments and the answers it has got,
\* so one that is blocked in its first request has no answer field yet.  An
\* answer that comes while others wait is no response, or data: one or two hits
\* of the account's book, the account's `me`, a list without books.
\* Every other invocation runs while nothing else waits.  The 'me' query and
\* the calls are started while nothing waits and the others beside them: the
\* start of a call reads and writes nothing, so a later start shows no other
\* behaviour.
SideBySide(c) ==
    LET got(field) == field \in DOMAIN c.inp
        plain == c.inp.resp = Dummy
        hits(h) == c.inp.resp = DataOutcome /\ h \in {<<Hit(DocIdOnly)>>, <<Hit(DocIdOnly), Hit(DocIdOnly)>>}
    IN  \/ /\ c.op = "KeywordQuery"
           /\ c.inp.prefs = SidePrefs
           /\ \/ /\ c.inp.query = W_dune
                 /\ got("resp") => plain \/ (c.inp.body.envelope = "hits" /\ hits(c.inp.body.hits))
              \/ /\ c.inp.query = W_me
                 /\ got("resp") =>
                       plain \/ (c.inp.resp = DataOutcome
                                 /\ c.inp.me \in {JObj(FullMe), JObj([FullMe EXCEPT !["name"] = JAbsent])})
        \/ /\ c.op = "ItemEnter"
           /\ c.inp.prefs.api_token = Pref(Credential)
           /\ c.inp.data = SidePayload
        \/ /\ c.op = "main.search"
           /\ c.inp.query_type = "Book"
           /\ got("resp") => plain \/ (c.inp.body.envelope = "hits" /\ hits(c.inp.body.hits))
        \/ /\ c.op = "main.get_user_info"
           /\ got("resp") =>
                 plain \/ (c.inp.resp = DataOutcome
                           /\ c.inp.me \in {JObj(FullMe), JObj([FullMe EXCEPT !["name"] = JAbsent])})
        \/ /\ c.op = "main.check_book_in_library"
           /\ c.inp.user_id = AccountUser /\ c.inp.book_id = 1
        \/ /\ c.op = "main.add_book_to_library"
           /\ c.inp.book_id = 1 /\ c.inp.status_id = 3 /\ c.inp.rating = JNull
        \/ /\ c.op = "api.search_books"
           /\ c.inp.query = W_dune
           /\ got("resp") => plain \/ hits(c.inp.hits)
        \/ /\ c.op \in {"api.get_user_lists", "api.get_user_books_by_status"}
           /\ got("resp") =>
                 plain \/ (c.inp.resp = DataOutcome /\ Tag(c.inp.me) = "list" /\ Len(c.inp.me[2]) = 1
                           /\ c.inp.me[2][1].user_books = JList(<<>>))
        \/ c.op = "api.add_book_to_library"

\* the values an input of a new invocation is drawn from.  While nothing waits:
\* all of them with the library of Init, and with another library `touching`,
\* those an invocation that touches the library can have (CanStart).  While
\* fewer than MaxWaiting of the invocations run side by side wait: `side`,
\* those of such an invocation.  None otherwise.
Drawn(all, side, touching) ==
    IF waiting = EmptyBag
    THEN IF library = EmptyLibrary /\ added = {} THEN all ELSE touching
    ELSE IF BagCardinality(waiting) < MaxWaiting /\ \A w \in BagToSet(waiting) : SideBySide(w)
    THEN side
    ELSE {}

\* invocation c, which sends `requests`, goes on while `others` wait: nothing
\* else waits, or c is one of those run side by side.  An invocation touches
\* the library when it inserts a book of the catalogue or looks one up for the
\* account; one that does not neither reads nor writes the library, and is
\* explored with the library of Init only.
CanStart(c, requests, others) ==
    \/ /\ others = EmptyBag
       /\ \/ \E k \in 1..Len(requests) :
                \/ requests[k].op = "insert" /\ requests[k].args[1] \in Books
                \/ requests[k].op = "lookup" /\ ReadsLibrary(requests[k], DataOutcome)
          \/ library = EmptyLibrary /\ added = {}
    \/ SideBySide(c)

\* the user changes the status of a book on the service's own site, whether or
\* not an invocation is waiting for an answer (0: the entry is removed; 7 is a
\* status id the extension has no name for).  Edits are explored while the
\* invocations that wait can read or write an entry of the library.
EditLibrary ==
    /\ phase = "idle"
    /\ \A w \in BagToSet(waiting) :
           \/ w.op = "ItemEnter"
           \/ w.op = "api.add_book_to_library"
           \/ w.op = "main.check_book_in_library" /\ w.inp.user_id = AccountUser /\ w.inp.book_id \in Books
           \/ w.op = "KeywordQuery"
              /\ \/ "lk" \in DOMAIN w.inp
                 \/ /\ w.inp.prefs.api_token = Pref(Credential)
                    /\ w.inp.prefs.user_id = Pref(AccountUserId)
                    /\ w.inp.query = W_dune
           \/ w.op = "main.add_book_to_library" /\ w.inp.book_id \in Books
    /\ \E b \in Books, st \in {0, 3, 7} :
           /\ library' = [library EXCEPT ![b] = st]
           /\ added' = IF st = 0 THEN {p \in added : p[2] # b} ELSE added
    /\ UNCHANGED <<phase, op, inp, out, reqs, waiting>>

\* what the service answers to a request of a waiting invocation: any outcome
\* of `all` while it is the only one waiting, no response or data while another
\* waits as well
AnswersTo(all) ==
    IF BagCardinality(waiting) = 1 THEN all ELSE {o \in all : o = Dummy \/ o = DataOutcome}

\* invocation c returns to the host with the result of run
Returns(c, run) ==
    /\ op' = c.op
    /\ inp' = c.inp
    /\ out' = run.out
    /\ reqs' = run.reqs
    /\ phase' = "returned"

\* invocation c blocks in a request: it joins those that wait, or takes the
\* place of `was`, its state before its last answer
Waits(c, was) ==
    /\ waiting' = (waiting (-) was) (+) SetToBag({c})
    /\ UNCHANGED <<phase, op, inp, out, reqs>>

\* the handlers on the inputs of an invocation; a request not answered yet
\* stands with no response
KeywordRun(i) == KeywordQuery_on_event(i.prefs, i.query, i.resp, i.body, i.me, i.lk, i.seen)
ItemRun(i) == ItemEnter_on_event(i.prefs, i.data, i.lkresp, i.mresp, i.inserted, LibAt(i.seen, 1))

\* KeywordQueryEvent: the handler runs on a typed query with the preferences
\* the host holds.  It returns at once when it sends no request, and blocks in
\* its search or user-info request otherwise.
KeywordQuery ==
    /\ phase = "idle"
    /\ \E prefs \in Drawn(Preferences, {SidePrefs},
                            {p \in Preferences : p.api_token = Pref(Credential)
                                                   /\ p.user_id = Pref(AccountUserId)}),
          query \in Drawn(Queries, {W_dune}, {W_dune}) :
         IF FirstRequest(prefs, query) = "none"
         THEN \E c \in {[op |-> "KeywordQuery",
                         inp |-> [prefs |-> prefs, query |-> query, resp |-> Dummy, body |-> NoBody,
                                  me |-> JNull, lk |-> <<>>, seen |-> <<>>]]} :
                  Returns(c, KeywordRun(c.inp)) /\ UNCHANGED waiting
         ELSE Waits([op |-> "KeywordQuery", inp |-> [prefs |-> prefs, query |-> query]], EmptyBag)
    /\ UNCHANGED <<library, added>>

\* a keyword query that is blocked in its search or user-info request gets the
\* answer; the handler returns when it looks no book up, and blocks in its
\* first lookup otherwise
KeywordQueryAnswer ==
    /\ phase = "idle"
    /\ \E c \in BagToSet(waiting) :
         /\ c.op = "KeywordQuery"
         /\ "lk" \notin DOMAIN c.inp
         /\ \E first \in {FirstRequest(c.inp.prefs, c.inp.query)} :
              \E ans \in (IF first = "search" THEN HandlerAnswers(c.inp.query)
                          ELSE {[resp |-> Dummy, body |-> NoBody]}),
                 who \in (IF first = "me" THEN MeAnswers ELSE {[resp |-> Dummy, me |-> JNull]}) :
                \E next \in {[op |-> "KeywordQuery",
                              inp |-> [prefs |-> c.inp.prefs, query |-> c.inp.query,
                                       resp |-> IF first = "me" THEN who.resp ELSE ans.resp,
                                       body |-> ans.body, me |-> who.me, lk |-> <<>>, seen |-> <<>>]]} :
                  /\ BagCardinality(waiting) = 1 \/ SideBySide(next)
                  /\ \E run \in {KeywordRun(next.inp)} :
                         /\ CanStart(next, run.reqs, waiting (-) SetToBag({c}))
                         /\ IF LookupsOf(run.reqs) = <<>>
                            THEN Returns(next, run) /\ waiting' = waiting (-) SetToBag({c})
                            ELSE Waits(next, SetToBag({c}))
    /\ UNCHANGED <<library, added>>

\* a waiting keyword query gets the answer of its next lookup, which reads the
\* library as it is now; after the last one the handler returns
KeywordQueryLookup ==
    /\ phase = "idle"
    /\ \E c \in BagToSet(waiting) :
         /\ c.op = "KeywordQuery"
         /\ "lk" \in DOMAIN c.inp
         /\ \E looks \in {LookupsOf(KeywordRun(c.inp).reqs)}, k \in {Len(c.inp.lk) + 1},
               o \in AnswersTo(HandlerLookups(c.inp.query)) :
              \E next \in {[c EXCEPT !.inp.lk = Append(@, o),
                                      !.inp.seen = Append(@, Shown(looks[k], o, library))]} :
                \E run \in {KeywordRun(next.inp)} :
                  IF Len(LookupsOf(run.reqs)) <= k
                  THEN Returns(next, run) /\ waiting' = waiting (-) SetToBag({c})
                  ELSE Waits(next, SetToBag({c}))
    /\ UNCHANGED <<library, added>>

AddedItemName == <<Lit("[check] Added to Want to Read")>>

\* the history after an activation: a pair joins it when the handler reports
\* the book as added
AddedAfter(pairs, data, result) ==
    IF result.items # <<>> /\ result.items[1].name = AddedItemName
    THEN pairs \cup {<<IntOf(data.user_id).val, IntOf(data.book_id).val>>}
    ELSE pairs

\* ItemEnterEvent: the handler runs on the payload of an activated item.  It
\* returns at once when it sends nothing, and waits for its lookup otherwise.
ItemEnter ==
    /\ phase = "idle"
    /\ \E token \in Drawn(TokenPrefs, {Pref(Credential)}, TokenPrefs),
          data \in Drawn(Payloads, {SidePayload}, Payloads) :
         \E c \in {[op |-> "ItemEnter",
                    inp |-> [prefs |-> [api_token |-> token, user_id |-> NoPref, results_limit |-> NoPref],
                             data |-> data, lkresp |-> Dummy, mresp |-> Dummy, inserted |-> FALSE,
                             seen |-> <<>>]]} :
           /\ waiting = EmptyBag \/ SideBySide(c)
           /\ \E dry \in {ItemRun(c.inp)} :
                  /\ CanStart(c, dry.reqs, waiting)
                  /\ IF dry.reqs = <<>>
                     THEN Returns(c, dry) /\ UNCHANGED waiting
                     ELSE Waits(c, EmptyBag)
    /\ UNCHANGED <<library, added>>

\* a waiting activation gets the answer of its lookup, which reads the library
\* as it is now; the handler returns when it found an entry, and sends the
\* mutation and waits for it otherwise
ItemEnterLookup ==
    /\ phase = "idle"
    /\ \E c \in BagToSet(waiting) :
         /\ c.op = "ItemEnter"
         /\ c.inp.seen = <<>>
         /\ \E lookup \in {ItemRun(c.inp).reqs[1]}, lkresp \in AnswersTo(Outcomes) :
              \E next \in {[c EXCEPT !.inp.lkresp = lkresp,
                                      !.inp.seen = <<Shown(lookup, lkresp, library)>>]} :
                \E run \in {ItemRun(next.inp)} :
                  IF Len(run.reqs) = 1
                  THEN Returns(next, run) /\ waiting' = waiting (-) SetToBag({c})
                  ELSE Waits(next, SetToBag({c}))
    /\ UNCHANGED <<library, added>>

\* a waiting activation gets the answer of its mutation, which writes the
\* library as it is now, and the handler returns
ItemEnterInsert ==
    /\ phase = "idle"
    /\ \E c \in BagToSet(waiting) :
         /\ c.op = "ItemEnter"
         /\ c.inp.seen # <<>>
         /\ \E mresp \in AnswersTo(Outcomes) :
              \E inserted \in (IF mresp = DataOutcome /\ IntOf(c.inp.data.book_id).val \in Books
                               THEN BOOLEAN ELSE {FALSE}) :
                \E next \in {[c EXCEPT !.inp.mresp = mresp, !.inp.inserted = inserted]} :
                  \E run \in {ItemRun(next.inp)} :
                    /\ Returns(next, run)
                    /\ waiting' = waiting (-) SetToBag({c})
                    /\ library' = LibraryAfter(library, run.reqs, inserted)
                    /\ added' = AddedAfter(added, c.inp.data, run.out)

\* a direct call of a client operation returns [raised, value] to its caller;
\* c is the call as it was blocked in its last request, or as it was made when
\* it sends none
Called(c, input, result) ==
    /\ CanStart([op |-> c.op, inp |-> input], result.reqs, waiting (-) SetToBag({c}))
    /\ op' = c.op
    /\ inp' = input
    /\ out' = [raised |-> result.raised, kind |-> "value", items |-> <<>>, value |-> result.value]
    /\ reqs' = result.reqs
    /\ phase' = "returned"
    /\ waiting' = waiting (-) SetToBag({c})

\* main.py: HardcoverAPI(api_token)
MainInit ==
    /\ phase = "idle"
    /\ \E raw \in Drawn(RawTokens, {}, {}) :
           Called([op |-> "main.__init__", inp |-> [raw |-> raw]], [raw |-> raw],
                  [raised |-> FALSE, value |-> [api_token |-> MainToken(raw), auth |-> MainAuth(raw)],
                   reqs |-> <<>>])
    /\ UNCHANGED <<library, added>>

\* main.py: HardcoverAPI.get_user_info: the call blocks in requests.post, and
\* returns when the answer comes
MainGetUserInfo ==
    /\ phase = "idle"
    /\ \/ \E c \in Drawn({[op |-> "main.get_user_info", inp |-> <<>>]}, {}, {}) :
              Waits(c, EmptyBag)
       \/ \E c \in BagToSet(waiting) :
            /\ c.op = "main.get_user_info"
            /\ \E who \in MeAnswers :
                 \E run \in {get_user_info(Credential, who.resp, who.me)} :
                     Called(c, [resp |-> who.resp, me |-> who.me],
                            [raised |-> FALSE, value |-> run.value, reqs |-> run.reqs])
    /\ UNCHANGED <<library, added>>

\* main.py: HardcoverAPI.check_book_in_library: the call blocks in
\* requests.post, and the answer shows the library as it is when it comes
MainCheckBookInLibrary ==
    /\ phase = "idle"
    /\ \/ \E user_id \in Drawn({AccountUser, 8}, {}, {AccountUser}),
             book_id \in Drawn({1, 2}, {}, {1}) :
              Waits([op |-> "main.check_book_in_library",
                     inp |-> [user_id |-> user_id, book_id |-> book_id]], EmptyBag)
       \/ \E c \in BagToSet(waiting) :
            /\ c.op = "main.check_book_in_library"
            /\ \E resp \in AnswersTo(Outcomes) :
                 \E run \in {check_book_in_library(Credential, c.inp.user_id, c.inp.book_id, resp, library)} :
                     Called(c, [user_id |-> c.inp.user_id, book_id |-> c.inp.book_id, resp |-> resp],
                            [raised |-> FALSE, value |-> run.value, reqs |-> run.reqs])
    /\ UNCHANGED <<library, added>>

\* main.py: HardcoverAPI.add_book_to_library: the call blocks in
\* requests.post, and the service writes the library when it answers
MainAddBookToLibrary ==
    /\ phase = "idle"
    /\ \/ /\ \E book_id \in Drawn({1, 2}, {}, {1}), status_id \in {1, 3}, rating \in {JNull, JFloat(45)} :
                 Waits([op |-> "main.add_book_to_library",
                        inp |-> [book_id |-> book_id, status_id |-> status_id, rating |-> rating]],
                       EmptyBag)
          /\ UNCHANGED library
       \/ \E c \in BagToSet(waiting) :
            /\ c.op = "main.add_book_to_library"
            /\ \E resp \in AnswersTo(Outcomes) :
                 \E inserted \in (IF resp = DataOutcome /\ c.inp.book_id \in Books
                                  THEN BOOLEAN ELSE {FALSE}) :
                   \E run \in {add_book_to_library(Credential, c.inp.book_id, c.inp.status_id,
                                                   c.inp.rating, resp, inserted)} :
                       /\ Called(c, [book_id |-> c.inp.book_id, status_id |-> c.inp.status_id,
                                     rating |-> c.inp.rating, resp |-> resp, inserted |-> inserted],
                                 [raised |-> FALSE, value |-> run.value, reqs |-> run.reqs])
                       /\ library' = LibraryAfter(library, run.reqs, inserted)
    /\ UNCHANGED added

\* main.py: HardcoverAPI.search: the call blocks in requests.post, and returns
\* when the answer comes
MainSearch ==
    /\ phase = "idle"
    /\ \/ \E kind \in Drawn({"Book", "Author", "Series", "List"}, {}, {}) :
              Waits([op |-> "main.search", inp |-> [query_type |-> kind]], EmptyBag)
       \/ \E c \in BagToSet(waiting) :
            /\ c.op = "main.search"
            /\ \E ans \in SearchAnswers :
                 \E run \in {search(Credential, W_dune, c.inp.query_type, 10, ans.resp, ans.body)} :
                     Called(c, [query_type |-> c.inp.query_type, resp |-> ans.resp, body |-> ans.body],
                            [raised |-> FALSE, value |-> run.value, reqs |-> run.reqs])
    /\ UNCHANGED <<library, added>>

\* api.py: HardcoverAPI(api_token)
ApiInit ==
    /\ phase = "idle"
    /\ \E raw \in Drawn(RawTokens, {}, {}) :
           Called([op |-> "api.__init__", inp |-> [raw |-> raw]], [raw |-> raw],
                  [raised |-> FALSE, value |-> [api_token |-> ApiToken(raw), auth |-> ApiAuth(raw)],
                   reqs |-> <<>>])
    /\ UNCHANGED <<library, added>>

\* api.py: HardcoverAPI.search_books: the call returns at once for the empty
\* query; otherwise it blocks in requests.get, and returns when the answer comes
ApiSearchBooks ==
    /\ phase = "idle"
    /\ \/ \E query \in Drawn({<<>>, W_dune}, {}, {}) :
              \E c \in {[op |-> "api.search_books", inp |-> [query |-> query]]} :
                  IF query = <<>>
                  THEN Called(c, [query |-> query, resp |-> Dummy, hits |-> <<>>],
                              search_books(query, Dummy, <<>>))
                  ELSE Waits(c, EmptyBag)
       \/ \E c \in BagToSet(waiting) :
            /\ c.op = "api.search_books"
            /\ \E ans \in SearchAnswers :
                 /\ ans.body.envelope = "hits"
                 /\ Called(c, [query |-> c.inp.query, resp |-> ans.resp, hits |-> ans.body.hits],
                           search_books(c.inp.query, ans.resp, ans.body.hits))
    /\ UNCHANGED <<library, added>>

ApiMeAnswers ==
    {[resp |-> r, me |-> JAbsent] : r \in Outcomes \ {DataOutcome}}
    \cup {[resp |-> DataOutcome, me |-> m] : m \in ApiMes}

\* api.py: HardcoverAPI.get_user_lists: the call blocks in requests.post (in
\* _run_query), and returns when the answer comes
ApiGetUserLists ==
    /\ phase = "idle"
    /\ \/ \E c \in Drawn({[op |-> "api.get_user_lists", inp |-> <<>>]}, {}, {}) :
              Waits(c, EmptyBag)
       \/ \E c \in BagToSet(waiting) :
            /\ c.op = "api.get_user_lists"
            /\ \E ans \in ApiMeAnswers :
                 Called(c, [resp |-> ans.resp, me |-> ans.me],
                        get_user_lists(Credential, ans.resp, ans.me))
    /\ UNCHANGED <<library, added>>

\* api.py: HardcoverAPI.get_user_books_by_status: the call blocks in
\* requests.post (in _run_query), and returns when the answer comes
ApiGetUserBooksByStatus ==
    /\ phase = "idle"
    /\ \/ \E status_id \in Drawn(1..3, {}, {}) :
              Waits([op |-> "api.get_user_books_by_status", inp |-> [status_id |-> status_id]], EmptyBag)
       \/ \E c \in BagToSet(waiting) :
            /\ c.op = "api.get_user_books_by_status"
            /\ \E ans \in ApiMeAnswers :
                 Called(c, [status_id |-> c.inp.status_id, resp |-> ans.resp, me |-> ans.me],
                        get_user_books_by_status(Credential, c.inp.status_id, ans.resp, ans.me))
    /\ UNCHANGED <<library, added>>

\* api.py: HardcoverAPI.add_book_to_library: the call blocks in the request
\* that resolves the slug; with a book found it blocks in the mutation, and the
\* service writes the library when it answers that
ApiAddBookToLibrary ==
    /\ phase = "idle"
    /\ \/ /\ \E status_id \in Drawn({1, 3}, {}, {1, 3}) :
                 Waits([op |-> "api.add_book_to_library", inp |-> [status_id |-> status_id]], EmptyBag)
          /\ UNCHANGED library
       \/ /\ \E c \in BagToSet(waiting) :
               /\ c.op = "api.add_book_to_library"
               /\ "resp1" \notin DOMAIN c.inp
               /\ \E resp1 \in AnswersTo(Outcomes) :
                    \E books \in (IF resp1 = DataOutcome THEN {<<>>} \cup {<<b>> : b \in Books}
                                  ELSE {<<>>}) :
                      IF books = <<>>
                      THEN Called(c, [status_id |-> c.inp.status_id, resp1 |-> resp1, books |-> books,
                                      resp2 |-> Dummy],
                                  api_add_book_to_library(Credential, <<"f">>, c.inp.status_id, resp1,
                                                          books, Dummy))
                      ELSE Waits([op |-> c.op,
                                  inp |-> [status_id |-> c.inp.status_id, resp1 |-> resp1,
                                           books |-> books]],
                                 SetToBag({c}))
          /\ UNCHANGED library
       \/ \E c \in BagToSet(waiting) :
            /\ c.op = "api.add_book_to_library"
            /\ "resp1" \in DOMAIN c.inp
            /\ \E resp2 \in AnswersTo(Outcomes) :
                 \E run \in {api_add_book_to_library(Credential, <<"f">>, c.inp.status_id, c.inp.resp1,
                                                     c.inp.books, resp2)} :
                     /\ Called(c, [status_id |-> c.inp.status_id, resp1 |-> c.inp.resp1,
                                   books |-> c.inp.books, resp2 |-> resp2], run)
                     /\ library' = LibraryAfter(library, run.reqs, TRUE)
    /\ UNCHANGED added

\* the host takes what the call returned and goes on
Return ==
    /\ phase = "returned"
    /\ phase' = "idle"
    /\ op' = "none"
    /\ inp' = <<>>
    /\ out' = NoOut
    /\ reqs' = <<>>
    /\ UNCHANGED <<library, added, waiting>>

Next ==
    \/ EditLibrary
    \/ KeywordQuery
    \/ KeywordQueryAnswer
    \/ KeywordQueryLookup
    \/ ItemEnter
    \/ ItemEnterLookup
    \/ ItemEnterInsert
    \/ MainInit
    \/ MainGetUserInfo
    \/ MainCheckBookInLibrary
    \/ MainAddBookToLibrary
    \/ MainSearch
    \/ ApiInit
    \/ ApiSearchBooks
    \/ ApiGetUserLists
    \/ ApiGetUserBooksByStatus
    \/ ApiAddBookToLibrary
    \/ Return

Spec == Init /\ [][Next]_vars

----------------------------------------------------------------------------
(* The claims *)

Searched == op = "KeywordQuery" /\ reqs # <<>> /\ reqs[1].op = "search"
NameOf(item) == item.name
OneItemNamed(name) == ~out.raised /\ Len(out.items) = 1 /\ NameOf(out.items[1]) = <<Lit(name)>>

\* C1: every public operation of both clients returns a value to its caller,
\* whatever the remote service answers: no client call raises.  (Stated as the
\* claim has it; api.py's get_user_lists, get_user_books_by_status and
\* add_book_to_library let the exception of _run_query through.)
C1_OperationsNeverRaise ==
    /\ op \in {"main.get_user_info", "main.check_book_in_library", "main.add_book_to_library",
               "main.search", "api.search_books", "api.get_user_lists",
               "api.get_user_books_by_status", "api.add_book_to_library"} => ~out.raised
    /\ \A i \in 1..Len(reqs) : ~reqs[i].raised

\* C2: with the api_token preference missing, empty or blank, the keyword
\* handler returns the single item 'API Token Required' and issues no request,
\* for every query.
BlankToken(prefs) ==
    \/ ~prefs.api_token.present
    \/ \A i \in 1..Len(prefs.api_token.value) : prefs.api_token.value[i] \in Whitespace
C2_NoTokenNoRequest ==
    (op = "KeywordQuery" /\ BlankToken(inp.prefs))
        => (OneItemNamed("API Token Required") /\ reqs = <<>>)
C2_Witness ==
    /\ op = "KeywordQuery"
    /\ inp.prefs.api_token = Pref(<<" ", "\r", "">>)
    /\ inp.query = W_me
    /\ OneItemNamed("API Token Required")
    /\ reqs = <<>>

\* C3: a search request that fails at the transport level (no response, or a
\* status outside 2xx) is never presented as 'No results found'.  (Stated as the
\* claim has it; search returns [] for a failure, and the handler shows the
\* 'no results' item for [].)
TransportFailure(resp) == resp.net = "fail" \/ resp.status \notin 200..299
C3_FailureIsNotNoResults ==
    (Searched /\ TransportFailure(reqs[1].resp)) => ~OneItemNamed("No results found")

\* C4 as claimed: for a search answered 200 with zero hits the handler shows
\* exactly the 'no results' item, and its text is the query as typed.
ZeroHits == Searched /\ reqs[1].resp = DataOutcome /\ inp.body.envelope = "hits" /\ inp.body.hits = <<>>
C4_NoResultsNamesTypedQuery == ZeroHits => (~out.raised /\ out.items = <<NoResultsItem(inp.query)>>)

\* the text the query stands for: what follows a leading kind keyword, else the
\* whole query
KindWords == {W_author, W_authors, W_series, W_list, W_lists}
TextOf(query) ==
    LET parts == Split1(query)
    IN  IF Len(parts) = 2 /\ Lower(parts[1]) \in KindWords THEN parts[2] ELSE query

\* C4, amended: for a search answered 200 with zero hits the handler shows
\* exactly the 'no results' item, and its text is the search text: the typed
\* query as it is, or, when its first word is a kind keyword followed by more
\* text, the text after that keyword.  The same text went out in the request.
C4_NoResultsNamesSearchText ==
    ZeroHits => /\ ~out.raised
                /\ out.items = <<NoResultsItem(TextOf(inp.query))>>
                /\ reqs[1].args[1] = TextOf(inp.query)
C4_Witness ==
    /\ ZeroHits
    /\ inp.query = W_author \o <<" ">> \o W_dune
    /\ out.items = <<NoResultsItem(W_dune)>>

\* C5: both client constructors turn `Bearer abc123`, `"abc123"` and ` abc123 `
\* into the credential abc123, sent as `Bearer abc123`.  (Stated as the claim has
\* it; main.py never removes the prefix, api.py never removes quotes.)
SampleTokens ==
    {BearerPrefix \o Credential,
     <<DoubleQuote>> \o Credential \o <<DoubleQuote>>,
     <<" ">> \o Credential \o <<" ">>}
C5_TokenSanitized ==
    (op \in {"main.__init__", "api.__init__"} /\ inp.raw \in SampleTokens)
        => (out.value.api_token = Credential /\ out.value.auth = Header(BearerPrefix \o Credential))

\* C6: a record with every optional field missing gets the subtitle of its
\* kind: 'Book', 'Author', 'Series', or the owner line of a list, with or without
\* a user id.  (Stated as the claim has it; an author gets its book count, and a
\* book with a user id gets the add hint.)
Fallback(kind) ==
    CASE kind = "Book" -> <<Lit("Book")>>
      [] kind = "Author" -> <<Lit("Author")>>
      [] kind = "Series" -> <<Lit("Series")>>
      [] OTHER -> <<Lit("By @"), Val(JStr(<<"Unknown">>))>>
BareRecordFound ==
    Searched /\ reqs[1].resp = DataOutcome /\ inp.body.envelope = "hits" /\ inp.body.hits = <<Hit(DocIdOnly)>>
C6_FallbackSubtitle ==
    BareRecordFound => /\ ~out.raised
                       /\ Len(out.items) = 1
                       /\ out.items[1].description = Fallback(reqs[1].args[2])

\* C7: an item offers 'add to Want-to-Read' only for a book, with a user id
\* configured, after a lookup for that user and book that was answered and
\* found no entry.  (Stated as the claim has it; a failed lookup, or a user id
\* that is no number, leaves the offer in place.)
ConfirmedAbsent(b) ==
    \E j \in 1..Len(reqs) :
        /\ reqs[j].op = "lookup"
        /\ reqs[j].args[2] = b
        /\ reqs[j].resp = DataOutcome
        /\ UserBooks(LibAt(inp.seen, Cardinality({i \in 1..j : reqs[i].op = "lookup"})),
                     reqs[j].args[1], b) = <<>>
C7_OfferOnlyWhenConfirmedAbsent ==
    op = "KeywordQuery" =>
        \A i \in 1..Len(out.items) :
            out.items[i].on_alt_enter # NoAction
                => /\ reqs[1].args[2] = "Book"
                   /\ inp.prefs.user_id.present /\ inp.prefs.user_id.value # <<>>
                   /\ ConfirmedAbsent(out.items[i].on_alt_enter.data.book_id[2])

\* the integer int() gives for a value, as a set: empty when int() raises.  An
\* integer is itself, a float loses its fraction, a string holds an optional
\* sign and a decimal literal between characters int() skips; these are the
\* whitespace of str.strip except the separators \x1c, \x1d, \x1e and \x1f.
Skipped(c) == c \in Whitespace /\ c \notin {"", "", "", ""}
Numeral(t) ==
    LET d == IF t # <<>> /\ Head(t) \in {"+", "-"} THEN Tail(t) ELSE t
    IN  IF IsLiteral(d) THEN {IF Head(t) = "-" THEN 0 - DecVal(d) ELSE DecVal(d)} ELSE {}
Converted(v) ==
    CASE Tag(v) = "int" -> {v[2]}
      [] Tag(v) = "float" -> {IntFloat(v[2])}
      [] Tag(v) = "str" ->
            UNION {Numeral(SubSeq(v[2], i, j)) :
                      <<i, j>> \in {w \in (1..Len(v[2])) \X (1..Len(v[2])) :
                                       /\ w[1] <= w[2]
                                       /\ \A k \in 1..Len(v[2]) :
                                              (k < w[1] \/ k > w[2]) => Skipped(v[2][k])}}
      [] OTHER -> {}

HitsAnswered == Searched /\ reqs[1].resp = DataOutcome /\ inp.body.envelope = "hits"

\* the documents a response carries: those of the hits that have one, the
\* empty object not counted
Documents(hits) ==
    LET carrying == SelectSeq(hits, LAMBDA h : h.has_document /\ h.document # EmptyDoc)
    IN  [i \in 1..Len(carrying) |-> carrying[i].document]

\* the results a search returned to the handler: the documents of an answer
\* with hits, none for any other answer
Results == IF HitsAnswered THEN Documents(inp.body.hits) ELSE <<>>

\* the lookups of the invocation for book b, and the results whose id is b
LookupsFor(b) == {j \in 1..Len(reqs) : reqs[j].op = "lookup" /\ reqs[j].args[2] = b}
ResultsFor(b) == {i \in 1..Len(Results) : b \in Converted(Get(Results[i], "id", JNull))}

\* C8: no retries.  One keyword query issues at most one search or user-info
\* request, first, and after it only lookups: none unless the search is for books
\* and a user id is set, each for the configured user id and the book of a
\* returned result, and for no book more lookups than there are results with
\* its id.  One item activation issues at most one lookup and then at most one
\* insert.
Count(name) == Cardinality({i \in 1..Len(reqs) : reqs[i].op = name})
C8_RequestBound ==
    /\ op = "KeywordQuery" =>
          /\ Count("search") + Count("me") <= 1
          /\ Count("search") + Count("me") + Count("lookup") = Len(reqs)
          /\ Count("lookup") > 0 =>
                /\ reqs[1].op = "search" /\ reqs[1].args[2] = "Book"
                /\ inp.prefs.user_id.present /\ inp.prefs.user_id.value # <<>>
                /\ Count("lookup") <= Len(Results)
          /\ \A j \in 1..Len(reqs) :
                reqs[j].op = "lookup" =>
                    /\ reqs[j].args[1] \in Converted(JStr(inp.prefs.user_id.value))
                    /\ Cardinality(LookupsFor(reqs[j].args[2]))
                          <= Cardinality(ResultsFor(reqs[j].args[2]))
    /\ op = "ItemEnter" =>
          /\ Count("lookup") <= 1 /\ Count("insert") <= 1
          /\ Count("lookup") + Count("insert") = Len(reqs)
          /\ Count("insert") = 1 => (Len(reqs) = 2 /\ reqs[1].op = "lookup")
C8_Witness ==
    /\ op = "KeywordQuery"
    /\ inp.body.hits = <<HitNoDocument, Hit(DocIdOnly)>>
    /\ Len(Results) = 1
    /\ Len(reqs) = 2
    /\ reqs[2].op = "lookup" /\ reqs[2].resp.net = "fail" /\ reqs[2].args = <<AccountUser, 1>>

\* C9: a search response whose results are JSON-encoded strings yields one
\* result per well-formed entry.  (Stated as the claim has it; search reads the
\* list as an object with hits, fails, and returns nothing.)
WellFormed(entries) == {i \in 1..Len(entries) : entries[i].wellformed}
C9_StringEntriesParsed ==
    (op = "main.search" /\ inp.resp = DataOutcome /\ inp.body.envelope = "strings")
        => Len(out.value) = Cardinality(WellFormed(inp.body.strings))

\* C10: both searches return one result per hit that has a document, in hit
\* order, and none for a hit without one.  (Stated as the claim has it;
\* search_books builds a record for every hit.)
WithDocument(hits) == {i \in 1..Len(hits) : hits[i].has_document}
C10_OneResultPerDocument ==
    /\ (op = "main.search" /\ inp.resp = DataOutcome /\ inp.body.envelope = "hits")
          => Len(out.value) = Cardinality(WithDocument(inp.body.hits))
    /\ (op = "api.search_books" /\ inp.query # <<>> /\ inp.resp = DataOutcome)
          => Len(out.value) = Cardinality(WithDocument(inp.hits))

\* the kind a query selects: that of a leading kind keyword followed by more
\* text, else Book
KindOf(query) ==
    LET parts == Split1(query)
        word == IF parts = <<>> THEN <<>> ELSE Lower(parts[1])
    IN  IF Len(parts) < 2 THEN "Book"
        ELSE IF word \in {W_author, W_authors} THEN "Author"
        ELSE IF word = W_series THEN "Series"
        ELSE IF word \in {W_list, W_lists} THEN "List"
        ELSE "Book"

\* the page size the preferences configure: results_limit as an integer, 10
\* when it is not set or no integer
LimitOf(prefs) ==
    IF prefs.results_limit.present /\ Converted(JStr(prefs.results_limit.value)) # {}
    THEN CHOOSE n \in Converted(JStr(prefs.results_limit.value)) : TRUE
    ELSE 10

Segment(kind) ==
    CASE kind = "Book" -> "books"
      [] kind = "Author" -> "authors"
      [] kind = "Series" -> "series"
      [] OTHER -> "lists"

SearchSent ==
    /\ Len(reqs) >= 1 /\ reqs[1].op = "search"
    /\ reqs[1].args = <<TextOf(inp.query), KindOf(inp.query), LimitOf(inp.prefs), 1>>
    /\ Count("search") = 1

\* C11: the search of a keyword query carries the kind, the text and the page
\* size the query and the preferences select, and a response with N hits is
\* presented as exactly N items, each opening the page of its kind.  (Stated as
\* the claim has it; a builder that raises on a field leaves the handler
\* without any item, a hit without a document gets none, and a response without
\* results gets the 'no results' item.)
C11_OneItemPerHit ==
    /\ Searched => SearchSent
    /\ HitsAnswered =>
          /\ ~out.raised
          /\ Len(out.items) = Len(inp.body.hits)
          /\ \A i \in 1..Len(out.items) :
                out.items[i].on_enter
                    = OpenUrlAction(Segment(KindOf(inp.query)),
                                    Get(inp.body.hits[i].document, "slug", JStr(<<>>)))

\* the payload activates `add_to_library` for the pair p = <<user id, book id>>
IsAddActivation(data, p) ==
    /\ data.action = JStr(<<"add_to_library">>)
    /\ p[1] \in Converted(data.user_id)
    /\ p[2] \in Converted(data.book_id)

CountIn(requests, name) == Cardinality({i \in 1..Len(requests) : requests[i].op = name})

\* the activation reported the book as already in the library, after one
\* lookup and without a mutation
AlreadyReported(result, requests) ==
    /\ ~result.raised
    /\ Len(result.items) = 1
    /\ result.items[1].name = <<Lit("Book Already in Library")>>
    /\ CountIn(requests, "lookup") = 1
    /\ CountIn(requests, "insert") = 0

\* invocation c left its place among the waiting ones in this step: it got an
\* answer
Answered(c) == CopiesIn(c, waiting') < CopiesIn(c, waiting)

\* an activation for the pair p gets the answer of its lookup, and the remote
\* service was reached: a response came back
LaterActivation(p) ==
    \E c \in BagToSet(waiting) :
        /\ Answered(c)
        /\ c.op = "ItemEnter"
        /\ c.inp.seen = <<>>
        /\ IsAddActivation(c.inp.data, p)
        /\ \/ phase' = "returned" /\ inp'.lkresp.net = "ok"
           \/ \E n \in BagToSet(waiting') :
                  CopiesIn(n, waiting') > CopiesIn(n, waiting) /\ n.inp.lkresp.net = "ok"

\* the step ends an activation with the report that the book is in the library
ReportsAlready == phase' = "returned" /\ op' = "ItemEnter" /\ AlreadyReported(out', reqs')

\* C12: once an activation has added the book for a (user id, book id), every
\* later activation for that pair that reaches the remote service looks the
\* entry up again, reports 'Book Already in Library' and sends no mutation.  An
\* activation is later when its lookup is answered after the add.  (Stated as
\* the claim has it; a lookup that is answered without data counts as 'no
\* entry', and the lookup is keyed by the user id of the payload while the
\* insert writes for the account of the token.)
C12_AddedOnce ==
    [][\A p \in added : LaterActivation(p) => ReportsAlready]_vars

\* the activation sent the mutation
Mutated == op = "ItemEnter" /\ Len(reqs) = 2 /\ reqs[2].op = "insert"

\* the mutation was answered 200 without `errors` and with the row written
MutationSucceeded == reqs[2].resp = DataOutcome /\ inp.inserted

\* what add_book_to_library returned to the handler
AddResult ==
    add_book_to_library(PrefGet(inp.prefs, "api_token", <<>>), reqs[2].args[1], reqs[2].args[2],
                        JNull, reqs[2].resp, inp.inserted).value

\* C13: when the mutation does not succeed (no answer, a status other than 200,
\* `errors`, or no insert_user_book data) add_book_to_library returns a failure
\* with an error message and the handler shows the single item 'Error Adding
\* Book' whose description carries that message; the item 'Added to Want to
\* Read' is shown only for a mutation answered without `errors` and with data.
C13_FailedAddIsReported ==
    /\ (Mutated /\ ~MutationSucceeded) =>
          /\ ~AddResult.success
          /\ AddResult.error \notin {Lit(""), <<>>}
          /\ OneItemNamed("Error Adding Book")
          /\ out.items[1].description = <<Lit("Error: "), AddResult.error>>
    /\ (op = "ItemEnter" /\ \E i \in 1..Len(out.items) : out.items[i].name = AddedItemName) =>
          /\ Mutated
          /\ MutationSucceeded
          /\ Len(out.items) = 1
C13_Witness ==
    /\ Mutated
    /\ reqs[2].resp.shape = "errors"
    /\ OneItemNamed("Error Adding Book")
    /\ out.items[1].description = <<Lit("Error: "), Lit("str(errors)")>>

\* a query of whitespace only, the empty query included
BlankQuery(query) == \A i \in 1..Len(query) : query[i] \in Whitespace

\* C14: with a token configured, an empty or whitespace-only query gets the help
\* items, without a request and without raising; and whatever the query, the
\* handler returns a list of at least one item.  (Stated as the claim has it;
\* only the empty query is filtered, a query of spaces raises IndexError.)
C14_BlankQueryGetsHelp ==
    op = "KeywordQuery" =>
        /\ ~out.raised
        /\ Len(out.items) >= 1
        /\ (~BlankToken(inp.prefs) /\ BlankQuery(inp.query)) =>
              /\ reqs = <<>>
              /\ out.items = HelpItems(PrefGet(inp.prefs, "user_id", <<>>))

\* the names of the six statuses
StatusLabels ==
    <<"Want to Read", "Currently Reading", "Read", "Paused", "Did Not Finish", "Ignored">>
StatusLabel(status_id) == IF status_id \in 1..6 THEN StatusLabels[status_id] ELSE "Unknown"

\* what one activation may do, given the library its lookup read
Ordered(data, result, requests, lib) ==
    LET users == Converted(data.user_id)
        books == Converted(data.book_id)
        user == CHOOSE n \in users : TRUE
        book == CHOOSE n \in books : TRUE
        entry == IF requests[1].resp = DataOutcome THEN UserBooks(lib, user, book) ELSE <<>>
    IN  IF data.action # JStr(<<"add_to_library">>)
        THEN requests = <<>> /\ result.kind = "HideWindowAction"
        ELSE IF users = {} \/ books = {}
        THEN /\ requests = <<>>
             /\ Len(result.items) = 1
             /\ result.items[1].name = <<Lit("Error")>>
        ELSE /\ Len(requests) >= 1
             /\ requests[1].op = "lookup"
             /\ requests[1].args = <<user, book>>
             /\ IF entry # <<>>
                THEN /\ Len(requests) = 1
                     /\ Len(result.items) = 1
                     /\ result.items[1].name = <<Lit("Book Already in Library")>>
                     /\ result.items[1].description[4] = Lit(StatusLabel(entry[1].status_id))
                ELSE /\ Len(requests) = 2
                     /\ requests[2].op = "insert"
                     /\ requests[2].args = <<book, 1>>
                     /\ result.items[1].name # <<Lit("Book Already in Library")>>

\* C15: in one activation the mutation goes out only after the lookup of that
\* activation came back without an entry; ids that are no integers give the
\* 'Error' item and no request; an entry found gives 'Book Already in Library'
\* with the name of its status ('Unknown' outside 1..6) and no mutation; a
\* payload with another action sends nothing.
C15_LookupThenMutation ==
    [][(phase = "idle" /\ op' = "ItemEnter")
          => Ordered(inp'.data, out', reqs', LibAt(inp'.seen, 1))]_vars
C15_Witness ==
    /\ op = "ItemEnter"
    /\ LibAt(inp.seen, 1)[1] = 7
    /\ Len(reqs) = 1 /\ reqs[1].op = "lookup"
    /\ OneItemNamed("Book Already in Library")
    /\ out.items[1].description[4] = Lit("Unknown")

====
